---------------------------- MODULE Spec2Model ----------------------------
(***************************************************************************)
(* A model of gee_tools: s2cloudless.py (the Sentinel-2 cloud and shadow   *)
(* mask pipeline and the collection join) and gee_functions.py (region     *)
(* reduction and the conversion of a FeatureCollection to a table).        *)
(*                                                                         *)
(* A raster is a one-dimensional strip of W pixels at the 20 m working     *)
(* resolution (a cross-section of the image along the east-west axis).  A  *)
(* band is [name, px, mk]: its name, its pixel values and its mask (1 =    *)
(* valid, 0 = masked).  An image is [bands, s2cloudless, azimuth]: its     *)
(* ordered bands, the bands of the image attached under the property       *)
(* 's2cloudless', and the property MEAN_SOLAR_AZIMUTH_ANGLE.               *)
(***************************************************************************)
EXTENDS Integers, Sequences, FiniteSets, TLC

VARIABLES
    pc,                 \* position of the modelled call sequence
    \* ---- s2cloudless.py, mask pipeline
    img,                \* the input image of the pipeline
    use_SCL,            \* the use_SCL argument
    img_cloud,          \* add_cloud_bands(img)
    img_cloud_shadow,   \* add_shadow_bands(img_cloud, use_SCL)
    img_mask,           \* add_cld_shdw_mask(img, use_SCL)
    img_out,            \* apply_cld_shdw_mask(img_mask)
    ddt_at_source,      \* whether the distance transform is defined at source pixels
    \* ---- s2cloudless.py, get_s2_sr_cld_col
    s2_catalog,         \* the images of 'COPERNICUS/S2'
    cld_catalog,        \* the images of 'COPERNICUS/S2_CLOUD_PROBABILITY'
    bounds,             \* the bounds argument: the tiles it intersects
    start_date,         \* the start_date argument
    end_date,           \* the end_date argument
    refl,               \* the filtered primary collection
    clouds,             \* the filtered secondary collection
    joined,             \* the returned collection
    \* ---- gee_functions.py
    op,                 \* the function called
    collection,         \* the ImageCollection given to get_timeseries
    regions,            \* the FeatureCollection given to create_reduce_regions
    add_date,           \* create_reduce_regions' add_date
    add_props,          \* create_reduce_regions' add_props
    selectors_arg,      \* the selectors argument of the call
    ts,                 \* get_timeseries: collection.map(reduce_function)
    gt_selectors,       \* get_timeseries: its local selectors
    fc,                 \* fc_to_df: its fc parameter
    selectors,          \* fc_to_df: its selectors
    calls,              \* the getInfo() round trips issued so far, in order
    err,                \* the exception raised ("" when none)
    df                  \* the DataFrame returned

maskVars ==
    <<img, use_SCL, img_cloud, img_cloud_shadow, img_mask, img_out, ddt_at_source>>

joinVars == <<s2_catalog, cld_catalog, bounds, start_date, end_date, refl, clouds, joined>>

tsVars ==
    <<op, collection, regions, add_date, add_props, selectors_arg, ts,
      gt_selectors, fc, selectors, calls, err, df>>

vars == <<pc, maskVars, joinVars, tsVars>>

---------------------------------------------------------------------------
(* Bounds of the model *)

\* Number of pixels of the raster strip.
W == 12

\* Longest patch of differing probability drawn into the probability band.
MaxPatch == 6

\* Number of distinct system:index values in the catalogs.
NumIds == 2

\* Most images in the 'COPERNICUS/S2' catalog.
MaxPrimary == 2

\* Most images in the 'COPERNICUS/S2_CLOUD_PROBABILITY' catalog.
MaxSecondary == 2

\* Most images in the collection given to get_timeseries.
MaxImages == 2

\* Most regions in the collection given to create_reduce_regions.
MaxRegions == 2

---------------------------------------------------------------------------
(* Module constants of s2cloudless.py *)

CLOUD_FILTER == 60

CLD_PRB_THRESH == 40

\* NIR_DRK_THRESH * SR_BAND_SCALE = 0.15 * 1e4
NIR_DRK_THRESH_SCALED == 1500

CLD_PRJ_DIST == 1

BUFFER == 100

\* The scale (metres) of the reprojection of the cloud mask: one pixel of
\* the strip.
MASK_SCALE == 20

\* The scale (metres) of the reprojection of the cloud projection.
PROJ_SCALE == 100

\* The SCL class of water.
SCL_WATER == 6

\* focalMin(2)
ERODE_RADIUS == 2

Pixels == 1..W

Min2(a, b) == IF a < b THEN a ELSE b

---------------------------------------------------------------------------
(* The Earth Engine image operations the pipeline calls *)

Band(n, p, m) == [name |-> n, px |-> p, mk |-> m]

Valid == [i \in Pixels |-> 1]

NoImage == [bands |-> <<>>, s2cloudless |-> <<>>, azimuth |-> 0]

\* ee.Image.gt / lt / neq with a constant: 1 where the comparison holds.
gt(b, c) == Band(b.name, [i \in Pixels |-> IF b.px[i] > c THEN 1 ELSE 0], b.mk)

lt(b, c) == Band(b.name, [i \in Pixels |-> IF b.px[i] < c THEN 1 ELSE 0], b.mk)

neq(b, c) == Band(b.name, [i \in Pixels |-> IF b.px[i] # c THEN 1 ELSE 0], b.mk)

\* ee.Image.multiply / add: pixelwise, masked where either input is.
multiply(a, b) ==
    Band(a.name, [i \in Pixels |-> a.px[i] * b.px[i]],
         [i \in Pixels |-> Min2(a.mk[i], b.mk[i])])

add(a, b) ==
    Band(a.name, [i \in Pixels |-> a.px[i] + b.px[i]],
         [i \in Pixels |-> Min2(a.mk[i], b.mk[i])])

\* ee.Image.Not: 1 where the input is zero, 0 elsewhere.
Not(b) == Band(b.name, [i \in Pixels |-> IF b.px[i] = 0 THEN 1 ELSE 0], b.mk)

rename(b, n) == Band(n, b.px, b.mk)

\* ee.Image.mask(): the mask of the band as an image, valid everywhere.
mask(b) == Band(b.name, b.mk, Valid)

\* ee.Image.normalizedDifference([x, y]).lt(0.2): (x - y)/(x + y) < 1/5,
\* in integers; the difference is masked where the sum is not positive.
normalizedDifferenceLt02(x, y) ==
    Band("nd",
         [i \in Pixels |->
            IF x.px[i] + y.px[i] > 0 /\ 5 * (x.px[i] - y.px[i]) < x.px[i] + y.px[i]
            THEN 1 ELSE 0],
         [i \in Pixels |->
            IF x.px[i] + y.px[i] > 0 THEN Min2(x.mk[i], y.mk[i]) ELSE 0])

\* The pixels of the kernel of radius r around i that lie on the strip and
\* are valid: focal operations skip masked neighbours.
Neighbours(b, i, r) == {j \in Pixels : j >= i - r /\ j <= i + r /\ b.mk[j] = 1}

\* ee.Image.focalMin(radius): erosion, radius in pixels.
focalMin(b, r) ==
    Band(b.name,
         [i \in Pixels |->
            IF Neighbours(b, i, r) = {} THEN b.px[i]
            ELSE CHOOSE v \in {b.px[j] : j \in Neighbours(b, i, r)} :
                    \A j \in Neighbours(b, i, r) : v <= b.px[j]],
         b.mk)

\* ee.Image.focalMax(radius): dilation, radius in pixels.
focalMax(b, r) ==
    Band(b.name,
         [i \in Pixels |->
            IF Neighbours(b, i, r) = {} THEN b.px[i]
            ELSE CHOOSE v \in {b.px[j] : j \in Neighbours(b, i, r)} :
                    \A j \in Neighbours(b, i, r) : v >= b.px[j]],
         b.mk)

\* The pixel of the strip at the centre of the block of `scale` metres that
\* holds pixel i.
BlockCentre(i, scale) ==
    LET k == scale \div MASK_SCALE
    IN  ((i - 1) \div k) * k + (k + 1) \div 2

\* ee.Image.reproject(crs, scale): nearest-neighbour resampling to blocks of
\* `scale` metres; a block whose centre is off the strip is masked.
reproject(b, scale) ==
    Band(b.name,
         [i \in Pixels |->
            IF BlockCentre(i, scale) \in Pixels THEN b.px[BlockCentre(i, scale)] ELSE 0],
         [i \in Pixels |->
            IF BlockCentre(i, scale) \in Pixels THEN b.mk[BlockCentre(i, scale)] ELSE 0])

\* The direction along the strip of an azimuth in degrees: +1 (east) when
\* the azimuth points into the eastern half plane, -1 otherwise.
Direction(azimuth) ==
    LET a == azimuth % 360 IN IF a < 90 \/ a > 270 THEN 1 ELSE -1

\* ee.Image.directionalDistanceTransform(angle, maxDistance), evaluated at
\* `scale` metres and selected for its 'distance' band: defined at the
\* pixels that have a non-zero pixel within maxDistance blocks against the
\* direction, masked everywhere else.  The code does not fix what the
\* service returns at the non-zero (source) pixels themselves: with
\* ddt_at_source they are defined (distance 0), without it they are masked.
directionalDistanceTransform(b, angle, maxDistance, scale) ==
    LET s == reproject(b, scale)
        k == scale \div MASK_SCALE
        hit(i) == \E d \in 1..maxDistance :
                    LET j == i - Direction(angle) * d * k
                    IN  j \in Pixels /\ s.mk[j] = 1 /\ s.px[j] # 0
        def(i) == /\ s.mk[i] = 1
                  /\ IF s.px[i] # 0 THEN ddt_at_source ELSE hit(i)
    IN  Band("distance",
             [i \in Pixels |-> IF def(i) THEN 1 ELSE 0],
             [i \in Pixels |-> IF def(i) THEN 1 ELSE 0])

\* The position of the first band named n (0 when there is none).
BandIndex(bands, n) ==
    IF \E i \in 1..Len(bands) : bands[i].name = n
    THEN CHOOSE i \in 1..Len(bands) :
            /\ bands[i].name = n
            /\ \A j \in 1..(i - 1) : bands[j].name # n
    ELSE 0

\* ee.Image.select(name): the band of that name.
select(image, n) == image.bands[BandIndex(image.bands, n)]

BandNames(bands) == {bands[i].name : i \in 1..Len(bands)}

Digit(k) == SubSeq("0123456789", k + 1, k + 1)

\* The name addBands gives a band named n next to the names in `taken`:
\* n itself, or n_1, n_2, ... (the first that is free).
FreeName(n, taken) ==
    IF n \notin taken THEN n
    ELSE LET k == CHOOSE k \in 1..9 :
                    /\ (n \o "_" \o Digit(k)) \notin taken
                    /\ \A m \in 1..(k - 1) : (n \o "_" \o Digit(m)) \in taken
         IN  n \o "_" \o Digit(k)

RECURSIVE AppendBands(_, _)
AppendBands(dst, src) ==
    IF src = <<>> THEN dst
    ELSE AppendBands(
            Append(dst, rename(Head(src), FreeName(Head(src).name, BandNames(dst)))),
            Tail(src))

\* addBands that drops the destination's bands and keeps only the source's.
addBands_replace(image, src) == [image EXCEPT !.bands = src]

\* ee.Image.addBands(srcImg) with overwrite = False: every band of the
\* destination is kept, the source's bands follow.
addBands(image, src) == [image EXCEPT !.bands = AppendBands(image.bands, src)]

\* Whether the regular expression pat (literals, '.', and a postfix '*')
\* matches the whole of s.
RECURSIVE RegexMatch(_, _)
RegexMatch(pat, s) ==
    IF pat = "" THEN s = ""
    ELSE LET c    == SubSeq(pat, 1, 1)
             star == Len(pat) >= 2 /\ SubSeq(pat, 2, 2) = "*"
             one  == s # "" /\ (c = "." \/ c = SubSeq(s, 1, 1))
         IN  IF star
             THEN \/ RegexMatch(SubSeq(pat, 3, Len(pat)), s)
                  \/ one /\ RegexMatch(pat, SubSeq(s, 2, Len(s)))
             ELSE one /\ RegexMatch(SubSeq(pat, 2, Len(pat)), SubSeq(s, 2, Len(s)))

\* ee.Image.select(regex): the bands whose names match, in order.
selectRegex(image, pat) ==
    [image EXCEPT !.bands = SelectSeq(image.bands, LAMBDA b : RegexMatch(pat, b.name))]

\* ee.Image.updateMask(m): a pixel stays valid where it was valid and the
\* mask image is valid and non-zero.
updateMask(image, m) ==
    [image EXCEPT !.bands =
        [k \in 1..Len(image.bands) |->
            Band(image.bands[k].name, image.bands[k].px,
                 [i \in Pixels |->
                    IF image.bands[k].mk[i] = 1 /\ m.mk[i] = 1 /\ m.px[i] # 0
                    THEN 1 ELSE 0])]]

---------------------------------------------------------------------------
(* s2cloudless.py: the mask pipeline *)

\* add_cloud_bands with the threshold compared by >= instead of >.
add_cloud_bands_gte(image) ==
    LET cld_prb  == select([bands |-> image.s2cloudless], "probability")
        is_cloud == rename(gt(cld_prb, CLD_PRB_THRESH - 1), "clouds")
    IN  addBands(image, <<cld_prb, is_cloud>>)

add_cloud_bands(image) ==
    LET cld_prb  == select([bands |-> image.s2cloudless], "probability")
        is_cloud == rename(gt(cld_prb, CLD_PRB_THRESH), "clouds")
    IN  addBands(image, <<cld_prb, is_cloud>>)

\* add_shadow_bands with the water test inverted: SCL = 6 taken as not water.
add_shadow_bands_water(image, useSCL) ==
    LET not_water ==
            IF useSCL THEN Not(neq(select(image, "SCL"), SCL_WATER))
            ELSE normalizedDifferenceLt02(select(image, "B4"), select(image, "B2"))
        dark_pixels ==
            rename(multiply(lt(select(image, "B8"), NIR_DRK_THRESH_SCALED), not_water),
                   "dark_pixels")
        shadow_azimuth == 90 - image.azimuth
        cld_proj ==
            rename(mask(directionalDistanceTransform(
                            select(image, "clouds"), shadow_azimuth,
                            CLD_PRJ_DIST * 10, PROJ_SCALE)),
                   "cloud_transform")
        shadows == rename(multiply(cld_proj, dark_pixels), "shadows")
    IN  addBands(image, <<dark_pixels, cld_proj, shadows>>)

add_shadow_bands(image, useSCL) ==
    LET not_water ==
            IF useSCL THEN neq(select(image, "SCL"), SCL_WATER)
            ELSE normalizedDifferenceLt02(select(image, "B4"), select(image, "B2"))
        dark_pixels ==
            rename(multiply(lt(select(image, "B8"), NIR_DRK_THRESH_SCALED), not_water),
                   "dark_pixels")
        shadow_azimuth == 90 - image.azimuth
        cld_proj ==
            rename(mask(directionalDistanceTransform(
                            select(image, "clouds"), shadow_azimuth,
                            CLD_PRJ_DIST * 10, PROJ_SCALE)),
                   "cloud_transform")
        shadows == rename(multiply(cld_proj, dark_pixels), "shadows")
    IN  addBands(image, <<dark_pixels, cld_proj, shadows>>)

\* raw_cld_shdw without the threshold: the bare sum of the two bands.
raw_cld_shdw_sum(image) == add(select(image, "clouds"), select(image, "shadows"))

\* (clouds + shadows) > 0 of an image that carries both bands.
raw_cld_shdw(image) == gt(add(select(image, "clouds"), select(image, "shadows")), 0)

\* focalMin(2).focalMax(BUFFER*2/20).reproject(scale 20).rename('cloudmask')
clean_cld_shdw(b) ==
    rename(reproject(focalMax(focalMin(b, ERODE_RADIUS), (BUFFER * 2) \div 20),
                     MASK_SCALE),
           "cloudmask")

add_cld_shdw_mask(image, useSCL) ==
    LET cloud        == add_cloud_bands(image)
        cloud_shadow == add_shadow_bands(cloud, useSCL)
        is_cld_shdw  == clean_cld_shdw(raw_cld_shdw(cloud_shadow))
    IN  addBands(cloud_shadow, <<is_cld_shdw>>)

\* apply_cld_shdw_mask without the inversion of the cloud mask.
apply_cld_shdw_mask_noinvert(image) ==
    updateMask(selectRegex(image, "B.*"), select(image, "cloudmask"))

apply_cld_shdw_mask(image) ==
    LET not_cld_shdw == Not(select(image, "cloudmask"))
    IN  updateMask(selectRegex(image, "B.*"), not_cld_shdw)

---------------------------------------------------------------------------
(* The inputs of the mask pipeline *)

\* A raster that is `inside` on the patch [s, s + len) and `outside` elsewhere.
Patch(s, len, inside, outside) ==
    [i \in Pixels |-> IF s <= i /\ i < s + len THEN inside ELSE outside]

\* Probabilities (per cent) inside and outside the patch: clear cloud and
\* clear sky either way round, and the two values around the threshold.
ProbPairs == {<<50, 10>>, <<10, 50>>, <<41, 40>>}

ProbRasters ==
    {Patch(s, len, pr[1], pr[2]) :
        s \in Pixels, len \in 1..MaxPatch, pr \in ProbPairs}
    \cup {Patch(1, 0, pr[1], pr[2]) : pr \in ProbPairs}

\* Near-infrared reflectance (B8, scaled by 1e4): dark on the left part of
\* the strip, with values on both sides of 0.15 * 1e4.
NirRaster(len, pr) == Patch(1, len, pr[1], pr[2])

\* Water on the left part of the strip: 1 = water.
WaterRaster(len) == Patch(1, len, 1, 0)

\* The scenes: <<near-infrared raster, water raster>>.
Scenes ==
    { <<NirRaster(W, <<1000, 2000>>), WaterRaster(W)>>,
      <<NirRaster(W, <<1000, 2000>>), WaterRaster(0)>>,
      <<NirRaster(0, <<1000, 2000>>), WaterRaster(0)>>,
      <<NirRaster(W \div 2, <<1000, 2000>>), WaterRaster(W \div 4)>>,
      <<NirRaster(W \div 2, <<1499, 1500>>), WaterRaster(0)>>,
      <<NirRaster(W, <<1499, 1500>>), WaterRaster(W \div 2)>> }

\* A band present beside the reflectance bands: a quality band, or a band
\* that already bears the name of one the pipeline adds.
ExtraNames == {"QA60", "probability"}

\* MEAN_SOLAR_AZIMUTH_ANGLE (degrees): a morning and an afternoon sun.
Azimuths == {135, 225}

\* An input image: B2 and B4 (red over blue is high on water), B8, the
\* scene classification (6 on water, 4 elsewhere) and the extra band.
InputImage(prob, nir, water, extra, az) ==
    [bands |->
        << Band("B2", [i \in Pixels |-> 1000], Valid),
           Band("B4", [i \in Pixels |-> IF water[i] = 1 THEN 3000 ELSE 1000], Valid),
           Band("B8", nir, Valid),
           Band("SCL", [i \in Pixels |-> IF water[i] = 1 THEN SCL_WATER ELSE 4], Valid),
           Band(extra, [i \in Pixels |-> 0], Valid) >>,
     s2cloudless |-> << Band("probability", prob, Valid) >>,
     azimuth |-> az]

MaskIdle ==
    /\ img = NoImage
    /\ use_SCL = FALSE
    /\ ddt_at_source = FALSE
    /\ img_cloud = NoImage
    /\ img_cloud_shadow = NoImage
    /\ img_mask = NoImage
    /\ img_out = NoImage

JoinIdle ==
    /\ s2_catalog = <<>>
    /\ cld_catalog = <<>>
    /\ bounds = {}
    /\ start_date = 0
    /\ end_date = 0
    /\ refl = <<>>
    /\ clouds = <<>>
    /\ joined = <<>>

NoSelectors == [kind |-> "none", names |-> <<>>]

NoFrame == [columns |-> <<>>, rows |-> <<>>, src |-> <<>>, timestamp |-> <<>>]

TsIdle ==
    /\ op = ""
    /\ collection = <<>>
    /\ regions = <<>>
    /\ add_date = FALSE
    /\ add_props = NoSelectors
    /\ selectors_arg = NoSelectors
    /\ ts = <<>>
    /\ gt_selectors = NoSelectors
    /\ fc = <<>>
    /\ selectors = NoSelectors
    /\ calls = <<>>
    /\ err = ""
    /\ df = NoFrame

InitMask ==
    /\ pc = "start"
    /\ JoinIdle
    /\ TsIdle
    /\ \E prob \in ProbRasters, scene \in Scenes,
          extra \in ExtraNames, az \in Azimuths :
            img = InputImage(prob, scene[1], scene[2], extra, az)
    /\ use_SCL \in BOOLEAN
    /\ ddt_at_source \in BOOLEAN
    /\ img_cloud = NoImage
    /\ img_cloud_shadow = NoImage
    /\ img_mask = NoImage
    /\ img_out = NoImage

\* img_cloud = add_cloud_bands(img)
CallAddCloudBands ==
    /\ pc = "start"
    /\ img_cloud' = add_cloud_bands(img)
    /\ pc' = "cloud"
    /\ UNCHANGED <<img, use_SCL, ddt_at_source, img_cloud_shadow, img_mask, img_out, joinVars, tsVars>>

\* img_cloud_shadow = add_shadow_bands(img_cloud, use_SCL)
CallAddShadowBands ==
    /\ pc = "cloud"
    /\ img_cloud_shadow' = add_shadow_bands(img_cloud, use_SCL)
    /\ pc' = "shadow"
    /\ UNCHANGED <<img, use_SCL, ddt_at_source, img_cloud, img_mask, img_out, joinVars, tsVars>>

\* img_mask = add_cld_shdw_mask(img, use_SCL)
CallAddCldShdwMask ==
    /\ pc = "shadow"
    /\ img_mask' = add_cld_shdw_mask(img, use_SCL)
    /\ pc' = "mask"
    /\ UNCHANGED <<img, use_SCL, ddt_at_source, img_cloud, img_cloud_shadow, img_out, joinVars, tsVars>>

\* img_out = apply_cld_shdw_mask(img_mask)
CallApplyCldShdwMask ==
    /\ pc = "mask"
    /\ img_out' = apply_cld_shdw_mask(img_mask)
    /\ pc' = "done"
    /\ UNCHANGED <<img, use_SCL, ddt_at_source, img_cloud, img_cloud_shadow, img_mask, joinVars, tsVars>>

NextMask ==
    \/ CallAddCloudBands
    \/ CallAddShadowBands
    \/ CallAddCldShdwMask
    \/ CallApplyCldShdwMask

SpecMask == InitMask /\ [][NextMask]_vars

---------------------------------------------------------------------------
(* s2cloudless.py: get_s2_sr_cld_col *)

\* A catalog image is [index, cpp, pos]: its system:index, its
\* CLOUDY_PIXEL_PERCENTAGE (0 in the probability catalog, which has none) and
\* its position in the catalog, which tells two images of one index apart.
\* A Sentinel-2 system:index spells the sensing time and the tile, so both
\* are functions of the index: the day is the index, the tile its parity.
TimeOf(index) == index

TileOf(index) == index % 2

\* ee.ImageCollection.filterDate(start, end): start inclusive, end exclusive.
filterDate(coll, start, end) ==
    SelectSeq(coll, LAMBDA x : TimeOf(x.index) >= start /\ TimeOf(x.index) < end)

\* ee.ImageCollection.filterBounds(geometry): the images that intersect it.
filterBounds(coll, geom) == SelectSeq(coll, LAMBDA x : TileOf(x.index) \in geom)

\* _get_collection(coll)
get_collection(coll, start, end, geom) == filterBounds(filterDate(coll, start, end), geom)

\* .filter(ee.Filter.lte('CLOUDY_PIXEL_PERCENTAGE', CLOUD_FILTER))
filterLteCloudy(coll) == SelectSeq(coll, LAMBDA x : x.cpp <= CLOUD_FILTER)

\* The secondary images that satisfy the condition ee.Filter.equals on
\* system:index against the primary image a, in the secondary's order.
Matches(a, secondary) == SelectSeq(secondary, LAMBDA b : a.index = b.index)

\* A join that saves the last match instead of the first.
RECURSIVE saveFirst_last(_, _)
saveFirst_last(primary, secondary) ==
    IF primary = <<>> THEN <<>>
    ELSE LET a == Head(primary)
             m == Matches(a, secondary)
             rest == saveFirst_last(Tail(primary), secondary)
         IN  IF m = <<>> THEN rest
             ELSE <<[index |-> a.index, cpp |-> a.cpp, pos |-> a.pos,
                     s2cloudless |-> m[Len(m)]]>> \o rest

\* ee.Join.saveFirst('s2cloudless').apply(primary, secondary, condition): each
\* primary image that has a match, with its first match saved under the key.
RECURSIVE saveFirst(_, _)
saveFirst(primary, secondary) ==
    IF primary = <<>> THEN <<>>
    ELSE LET a == Head(primary)
             m == Matches(a, secondary)
             rest == saveFirst(Tail(primary), secondary)
         IN  IF m = <<>> THEN rest
             ELSE <<[index |-> a.index, cpp |-> a.cpp, pos |-> a.pos,
                     s2cloudless |-> Head(m)]>> \o rest

Ids == 1..NumIds

\* Catalogs: every sequence of up to n images over the given indices and
\* cloudy-pixel percentages, each image numbered by its position.
Catalogs(n, cpps) ==
    UNION { { [k \in 1..len |-> [index |-> f[k][1], cpp |-> f[k][2], pos |-> k]] :
                f \in [1..len -> Ids \X cpps] } : len \in 0..n }

InitJoin ==
    /\ pc = "start"
    /\ MaskIdle
    /\ TsIdle
    /\ s2_catalog \in Catalogs(MaxPrimary, {CLOUD_FILTER, CLOUD_FILTER + 1})
    /\ cld_catalog \in Catalogs(MaxSecondary, {0})
    /\ bounds \in {{0, 1}, {1}}
    /\ start_date \in {1, 2}
    /\ end_date \in {NumIds, NumIds + 1}
    /\ refl = <<>>
    /\ clouds = <<>>
    /\ joined = <<>>

\* refl = _get_collection('COPERNICUS/S2').filter(lte CLOUDY_PIXEL_PERCENTAGE)
BuildRefl ==
    /\ pc = "start"
    /\ refl' = filterLteCloudy(get_collection(s2_catalog, start_date, end_date, bounds))
    /\ pc' = "refl"
    /\ UNCHANGED <<s2_catalog, cld_catalog, bounds, start_date, end_date, clouds, joined>>
    /\ UNCHANGED <<maskVars, tsVars>>

\* clouds = _get_collection('COPERNICUS/S2_CLOUD_PROBABILITY')
BuildClouds ==
    /\ pc = "refl"
    /\ clouds' = get_collection(cld_catalog, start_date, end_date, bounds)
    /\ pc' = "clouds"
    /\ UNCHANGED <<s2_catalog, cld_catalog, bounds, start_date, end_date, refl, joined>>
    /\ UNCHANGED <<maskVars, tsVars>>

\* return ee.ImageCollection(ee.Join.saveFirst('s2cloudless').apply(...))
ApplyJoin ==
    /\ pc = "clouds"
    /\ joined' = saveFirst(refl, clouds)
    /\ pc' = "joined"
    /\ UNCHANGED <<s2_catalog, cld_catalog, bounds, start_date, end_date, refl, clouds>>
    /\ UNCHANGED <<maskVars, tsVars>>

NextJoin ==
    \/ BuildRefl
    \/ BuildClouds
    \/ ApplyJoin

SpecJoin == InitJoin /\ [][NextJoin]_vars

---------------------------------------------------------------------------
(* Claims about get_s2_sr_cld_col, checked under SpecJoin *)

\* The positions of the primary images that have a match in the secondary.
Matched == {i \in 1..Len(refl) : \E j \in 1..Len(clouds) : clouds[j].index = refl[i].index}

\* The position in the secondary of the first image with the index of refl[i].
FirstMatch(i) ==
    CHOOSE j \in 1..Len(clouds) :
        /\ clouds[j].index = refl[i].index
        /\ \A h \in 1..(j - 1) : clouds[h].index # refl[i].index

\* The rank of position i among the matched positions.
Rank(i) == Cardinality({h \in Matched : h <= i})

\* C1: the primary collection holds the catalog's images in the date range and
\* the bounds with CLOUDY_PIXEL_PERCENTAGE <= 60; the result holds exactly the
\* primary images whose system:index some secondary image has, in the
\* primary's order, each with the first such secondary image under
\* 's2cloudless'; a primary image with no match is absent.
C1_JoinSaveFirst ==
    /\ pc # "start" => \A i \in 1..Len(refl) : refl[i].cpp <= 60
    /\ pc = "joined" =>
        /\ Len(joined) = Cardinality(Matched)
        /\ \A i \in Matched :
            /\ joined[Rank(i)].index = refl[i].index
            /\ joined[Rank(i)].pos = refl[i].pos
            /\ joined[Rank(i)].cpp = refl[i].cpp
            /\ joined[Rank(i)].s2cloudless = clouds[FirstMatch(i)]
        /\ \A k \in 1..Len(joined) :
            \E j \in 1..Len(clouds) : clouds[j].index = joined[k].index

\* The join has dropped the first of two primary images and kept the second,
\* which has two matches, with the first of them.
C1_Witness ==
    /\ pc = "joined"
    /\ Len(refl) = 2
    /\ Matched = {2}
    /\ Len(clouds) = 2
    /\ clouds[2].index = refl[2].index
    /\ Len(joined) = 1
    /\ joined[1].s2cloudless = clouds[1]

---------------------------------------------------------------------------
(* gee_functions.py: create_reduce_regions, fc_to_df, get_timeseries *)

\* An image of the collection is [time_start, orbit, valid]: its
\* system:time_start (POSIX milliseconds), another property, and the regions
\* (by position) in which it has unmasked pixels.  A feature is [props, src]:
\* its properties (absent when null) and the <<image, region>> it was reduced
\* from.  An optional list argument is [kind, names], kind "none" for None,
\* "list" for a list, "tuple" for a sequence that is not a list.

\* Property names in the order the client lists them.
PropOrder == <<"system:index", "name", "mean", "orbit", "millis">>

NamesIn(set) == SelectSeq(PropOrder, LAMBDA k : k \in set)

\* ee.Feature.set({key: value})
set(f, key, value) ==
    [f EXCEPT !.props =
        [k \in DOMAIN f.props \cup {key} |-> IF k = key THEN value ELSE f.props[k]]]

\* ee.Image.get(key)
ImageGet(image, key) == IF key = "orbit" THEN image.orbit ELSE image.time_start

\* ee.Image.reduceRegions(collection, reducer, crs, scale) with a reducer whose
\* output is named 'mean': one feature per region, in order, with the
\* region's properties and the reducer's output, which is null (absent)
\* for a region where the image has no unmasked pixel.
reduceRegions(m) ==
    [n \in 1..Len(regions) |->
        [props |->
            [k \in {"system:index", "name"}
                    \cup (IF n \in collection[m].valid THEN {"mean"} ELSE {}) |->
                IF k = "mean" THEN 10 * m + n ELSE regions[n].name],
         src |-> <<m, n>>]]

RECURSIVE set_props(_, _, _)
set_props(f, kws, image) ==
    IF kws = <<>> THEN f
    ELSE set_props(set(f, Head(kws), ImageGet(image, Head(kws))), Tail(kws), image)

\* reduce_regions with the date of the collection's first image on every row.
reduce_regions_firstdate(m) ==
    LET d  == reduceRegions(m)
        d1 == IF add_props.kind # "none"
              THEN [n \in 1..Len(d) |-> set_props(d[n], add_props.names, collection[m])]
              ELSE d
    IN  IF add_date
        THEN [n \in 1..Len(d1) |-> set(d1[n], "millis", collection[1].time_start)]
        ELSE d1

\* The function create_reduce_regions returns, applied to the m-th image.
reduce_regions(m) ==
    LET d  == reduceRegions(m)
        d1 == IF add_props.kind # "none"
              THEN [n \in 1..Len(d) |-> set_props(d[n], add_props.names, collection[m])]
              ELSE d
    IN  IF add_date
        THEN [n \in 1..Len(d1) |-> set(d1[n], "millis", collection[m].time_start)]
        ELSE d1

\* ee.ImageCollection.map(reduce_function): one FeatureCollection per image.
map_reduce == [m \in 1..Len(collection) |-> reduce_regions(m)]

\* ee.FeatureCollection.flatten()
RECURSIVE flatten(_)
flatten(fcs) == IF fcs = <<>> THEN <<>> ELSE Head(fcs) \o flatten(Tail(fcs))

\* The union of the property names of the features of a collection.
ColumnsOf(features) == UNION {DOMAIN features[n].props : n \in 1..Len(features)}

\* reduceColumns(ee.Reducer.toList(tupleSize = n), selectors).get('list'): one
\* tuple per feature, in order; a feature with a null value for any selector
\* is dropped (toList has no optional input).
reduceColumns(features, names) ==
    SelectSeq(features, LAMBDA f : \A k \in 1..Len(names) : names[k] \in DOMAIN f.props)

RowOf(f, names) == [k \in 1..Len(names) |-> f.props[names[k]]]

\* pd.to_datetime(millis, unit = 'ms'): seconds and milliseconds.
to_datetime(millis) == [sec |-> millis \div 1000, msec |-> millis % 1000]

IndexOf(names, key) == CHOOSE k \in 1..Len(names) : names[k] = key

\* pd.DataFrame(as_list, columns = selectors), and the timestamp column and
\* index when 'millis' is a column.
DataFrame(kept, names) ==
    [columns |-> names,
     rows |-> [r \in 1..Len(kept) |-> RowOf(kept[r], names)],
     src |-> [r \in 1..Len(kept) |-> kept[r].src],
     timestamp |->
        IF \E k \in 1..Len(names) : names[k] = "millis"
        THEN [r \in 1..Len(kept) |-> to_datetime(kept[r].props["millis"])]
        ELSE <<>>]

UnchangedInputs == UNCHANGED <<collection, regions, add_date, add_props, selectors_arg>>

\* fc_to_dict(fc): raise NotImplementedError
CallFcToDict ==
    /\ pc = "start"
    /\ op' = "fc_to_dict"
    /\ err' = "NotImplementedError"
    /\ pc' = "raised"
    /\ UnchangedInputs
    /\ UNCHANGED <<ts, gt_selectors, fc, selectors, calls, df, maskVars, joinVars>>

\* create_df(dictobj): raise NotImplementedError
CallCreateDf ==
    /\ pc = "start"
    /\ op' = "create_df"
    /\ err' = "NotImplementedError"
    /\ pc' = "raised"
    /\ UnchangedInputs
    /\ UNCHANGED <<ts, gt_selectors, fc, selectors, calls, df, maskVars, joinVars>>

\* fc_to_df(fc, selectors) called on the flattened reductions
CallFcToDf ==
    /\ pc = "start"
    /\ op' = "fc_to_df"
    /\ fc' = flatten(map_reduce)
    /\ selectors' = selectors_arg
    /\ pc' = "fc_to_df"
    /\ UnchangedInputs
    /\ UNCHANGED <<ts, gt_selectors, calls, err, df, maskVars, joinVars>>

\* get_timeseries: ts = collection.map(reduce_function)
GetTimeseriesMap ==
    /\ pc = "start"
    /\ op' = "get_timeseries"
    /\ ts' = map_reduce
    /\ gt_selectors' = selectors_arg
    /\ pc' = "mapped"
    /\ UnchangedInputs
    /\ UNCHANGED <<fc, selectors, calls, err, df, maskVars, joinVars>>

\* get_timeseries: if selectors is None:
\*     selectors = list(ts.first().getInfo()['columns'].keys())
\* The first of an empty collection is null, and None['columns'] a TypeError.
\* Whether the service lists 'system:index' among the columns is not fixed
\* by the code: both are modelled.
GetTimeseriesSelectors ==
    /\ pc = "mapped"
    /\ IF gt_selectors.kind = "none"
       THEN IF ts = <<>>
            THEN /\ calls' = Append(calls, [call |-> "columns", names |-> <<>>])
                 /\ err' = "TypeError"
                 /\ pc' = "raised"
                 /\ UNCHANGED gt_selectors
            ELSE \E cols \in {ColumnsOf(ts[1]), ColumnsOf(ts[1]) \ {"system:index"}} :
                 /\ calls' = Append(calls, [call |-> "columns", names |-> NamesIn(cols)])
                 /\ gt_selectors' = [kind |-> "list", names |-> NamesIn(cols)]
                 /\ pc' = "selected"
                 /\ UNCHANGED err
       ELSE /\ pc' = "selected"
            /\ UNCHANGED <<gt_selectors, calls, err>>
    /\ UnchangedInputs
    /\ UNCHANGED <<op, ts, fc, selectors, df, maskVars, joinVars>>

\* get_timeseries that calls fc_to_df(ts_f) without its selectors.
GetTimeseriesFlatten_noselectors ==
    /\ pc = "selected"
    /\ fc' = flatten(ts)
    /\ selectors' = NoSelectors
    /\ pc' = "fc_to_df"
    /\ UnchangedInputs
    /\ UNCHANGED <<op, ts, gt_selectors, calls, err, df, maskVars, joinVars>>

\* get_timeseries: ts_f = ts.flatten(); fc_to_df(ts_f, selectors = selectors)
GetTimeseriesFlatten ==
    /\ pc = "selected"
    /\ fc' = flatten(ts)
    /\ selectors' = gt_selectors
    /\ pc' = "fc_to_df"
    /\ UnchangedInputs
    /\ UNCHANGED <<op, ts, gt_selectors, calls, err, df, maskVars, joinVars>>

\* fc_to_df without the assertion on the type of selectors.
FcToDfSelectors_noassert ==
    /\ pc = "fc_to_df"
    /\ IF selectors.kind = "none"
       THEN IF fc = <<>>
            THEN /\ calls' = Append(calls, [call |-> "propertyNames", names |-> <<>>])
                 /\ err' = "EEException"
                 /\ pc' = "raised"
                 /\ UNCHANGED selectors
            ELSE /\ calls' = Append(calls, [call |-> "propertyNames",
                                            names |-> NamesIn(DOMAIN fc[1].props)])
                 /\ selectors' = [kind |-> "list", names |-> NamesIn(DOMAIN fc[1].props)]
                 /\ pc' = "extract"
                 /\ UNCHANGED err
       ELSE /\ pc' = "extract"
            /\ UNCHANGED <<selectors, calls, err>>
    /\ UnchangedInputs
    /\ UNCHANGED <<op, ts, gt_selectors, fc, df, maskVars, joinVars>>

\* fc_to_df: if selectors is None:
\*     selectors = fc.first().propertyNames().getInfo()
\* else: assert isinstance(selectors, list)
\* The first of an empty collection is null, which the service rejects.
FcToDfSelectors ==
    /\ pc = "fc_to_df"
    /\ IF selectors.kind = "none"
       THEN IF fc = <<>>
            THEN /\ calls' = Append(calls, [call |-> "propertyNames", names |-> <<>>])
                 /\ err' = "EEException"
                 /\ pc' = "raised"
                 /\ UNCHANGED selectors
            ELSE /\ calls' = Append(calls, [call |-> "propertyNames",
                                            names |-> NamesIn(DOMAIN fc[1].props)])
                 /\ selectors' = [kind |-> "list", names |-> NamesIn(DOMAIN fc[1].props)]
                 /\ pc' = "extract"
                 /\ UNCHANGED err
       ELSE IF selectors.kind = "list"
            THEN /\ pc' = "extract"
                 /\ UNCHANGED <<selectors, calls, err>>
            ELSE /\ err' = "AssertionError"
                 /\ pc' = "raised"
                 /\ UNCHANGED <<selectors, calls>>
    /\ UnchangedInputs
    /\ UNCHANGED <<op, ts, gt_selectors, fc, df, maskVars, joinVars>>

\* fc_to_df: as_list = fc.reduceColumns(...).get('list').getInfo(), and the
\* DataFrame built from it.
FcToDfExtract ==
    /\ pc = "extract"
    /\ calls' = Append(calls, [call |-> "extract", names |-> selectors.names])
    /\ df' = DataFrame(reduceColumns(fc, selectors.names), selectors.names)
    /\ pc' = "done"
    /\ UnchangedInputs
    /\ UNCHANGED <<op, ts, gt_selectors, fc, selectors, err, maskVars, joinVars>>

\* system:time_start values (milliseconds).
Times == {1000, 2500}

\* The images over n regions.
Images(n) == [time_start : Times, orbit : {7}, valid : SUBSET (1..n)]

Collections(n) == UNION {[1..len -> Images(n)] : len \in 0..MaxImages}

InitTs ==
    /\ pc = "start"
    /\ MaskIdle
    /\ JoinIdle
    /\ op = ""
    /\ \E n \in 1..MaxRegions :
        /\ regions = [r \in 1..n |-> [name |-> r]]
        /\ collection \in Collections(n)
    /\ add_date \in BOOLEAN
    /\ add_props \in {NoSelectors, [kind |-> "list", names |-> <<"orbit">>]}
    /\ selectors_arg \in {NoSelectors,
                          [kind |-> "list", names |-> <<"name", "mean", "millis">>],
                          [kind |-> "tuple", names |-> <<"name", "mean", "millis">>]}
    /\ ts = <<>>
    /\ gt_selectors = NoSelectors
    /\ fc = <<>>
    /\ selectors = NoSelectors
    /\ calls = <<>>
    /\ err = ""
    /\ df = NoFrame

NextTs ==
    \/ CallFcToDict
    \/ CallCreateDf
    \/ CallFcToDf
    \/ GetTimeseriesMap
    \/ GetTimeseriesSelectors
    \/ GetTimeseriesFlatten
    \/ FcToDfSelectors
    \/ FcToDfExtract

SpecTs == InitTs /\ [][NextTs]_vars

---------------------------------------------------------------------------
(* Claims about gee_functions.py, checked under SpecTs *)

\* get_timeseries has returned a frame built with add_date = True.
TimeseriesDone == op = "get_timeseries" /\ pc = "done" /\ add_date

HasColumn(key) == \E k \in 1..Len(df.columns) : df.columns[k] = key

\* Whether the feature reduced from image m over region n has a value for
\* the property: the reducer's output only where the image has unmasked
\* pixels in the region, an image property only when add_props asks for it.
NonNull(m, n, key) ==
    CASE key = "mean"  -> n \in collection[m].valid
      [] key = "orbit" -> add_props.kind = "list"
      [] key = "millis" -> add_date
      [] OTHER -> TRUE

\* The <<image, region>> pairs whose feature has every column of the frame.
CompletePairs ==
    {p \in (1..Len(collection)) \X (1..Len(regions)) :
        \A k \in 1..Len(df.columns) : NonNull(p[1], p[2], df.columns[k])}

\* Each row's 'millis' and timestamp are those of the image it was reduced
\* from.
RowsCarryImageTime ==
    HasColumn("millis") =>
        \A r \in 1..Len(df.rows) :
            /\ df.rows[r][IndexOf(df.columns, "millis")]
                    = collection[df.src[r][1]].time_start
            /\ df.timestamp[r].sec * 1000 + df.timestamp[r].msec
                    = collection[df.src[r][1]].time_start
            /\ \A q \in 1..Len(df.rows) :
                    df.src[q][1] = df.src[r][1] => df.timestamp[q] = df.timestamp[r]

\* C4 as claimed: get_timeseries over M images and N regions with add_date =
\* True yields exactly N * M rows, each with the time of its image.
C4_ExactlyNTimesMRows ==
    TimeseriesDone =>
        /\ Len(df.rows) = Len(regions) * Len(collection)
        /\ RowsCarryImageTime

\* C4 as amended: get_timeseries yields one row, in order of image and then
\* region, for each <<image, region>> pair whose feature has a non-null value
\* for every selector, so at most N * M rows and exactly N * M when no
\* selected value is null; every row carries the time of its image.
C4_RowsOfCompletePairs ==
    TimeseriesDone =>
        /\ Len(df.rows) = Cardinality(CompletePairs)
        /\ Len(df.rows) <= Len(regions) * Len(collection)
        /\ \A r \in 1..Len(df.rows) : df.src[r] \in CompletePairs
        /\ \A q, r \in 1..Len(df.rows) :
            q < r => \/ df.src[q][1] < df.src[r][1]
                     \/ df.src[q][1] = df.src[r][1] /\ df.src[q][2] < df.src[r][2]
        /\ (\A m \in 1..Len(collection) : collection[m].valid = 1..Len(regions))
                => Len(df.rows) = Len(regions) * Len(collection)
        /\ RowsCarryImageTime

\* get_timeseries has returned three rows from two images of different times
\* over two regions: one reduction was null and its row dropped.
C4_Witness ==
    /\ TimeseriesDone
    /\ Len(collection) = 2
    /\ Len(regions) = 2
    /\ collection[1].time_start # collection[2].time_start
    /\ HasColumn("millis")
    /\ HasColumn("mean")
    /\ Len(df.rows) = 3

IsExtraction(c) == c.call = "extract"

\* C8: fc_to_dict and create_df raise NotImplementedError with nothing built
\* and no round trip issued; fc_to_df and get_timeseries given selectors that
\* are not a list raise before the extraction, with no round trip issued.
C8_FailBeforeRoundTrip ==
    /\ (op \in {"fc_to_dict", "create_df"}) =>
        /\ pc = "raised"
        /\ err = "NotImplementedError"
        /\ calls = <<>>
        /\ fc = <<>> /\ ts = <<>> /\ df = NoFrame
    /\ (op \in {"fc_to_df", "get_timeseries"} /\ selectors_arg.kind = "tuple") =>
        /\ calls = <<>>
        /\ df = NoFrame
        /\ pc \notin {"extract", "done"}
        /\ pc = "raised" => err = "AssertionError"
        /\ err \in {"", "AssertionError"}

\* get_timeseries, given selectors that are not a list, has raised the
\* assertion error without a round trip.
C8_Witness ==
    /\ op = "get_timeseries"
    /\ selectors_arg.kind = "tuple"
    /\ pc = "raised"
    /\ err = "AssertionError"
    /\ calls = <<>>
    /\ fc # <<>>

\* C9: in get_timeseries, with selectors None, one enumeration round trip is
\* issued and completes before the one extraction, which uses exactly the
\* selectors enumerated; with selectors a list the extraction is the only
\* round trip.  The extraction is never followed by another round trip.
C9_RoundTripOrder ==
    op = "get_timeseries" =>
        /\ \A k \in 1..Len(calls) : IsExtraction(calls[k]) => k = Len(calls)
        /\ pc = "done" =>
            IF selectors_arg.kind = "none"
            THEN /\ Len(calls) = 2
                 /\ calls[1].call = "columns"
                 /\ calls[2].call = "extract"
                 /\ calls[2].names = calls[1].names
                 /\ df.columns = calls[1].names
            ELSE /\ Len(calls) = 1
                 /\ calls[1].call = "extract"
                 /\ calls[1].names = selectors_arg.names

\* get_timeseries has returned after enumerating the selectors itself.
C9_Witness ==
    /\ op = "get_timeseries"
    /\ pc = "done"
    /\ selectors_arg.kind = "none"
    /\ Len(calls) = 2
    /\ Len(df.rows) > 0

---------------------------------------------------------------------------
(* Claims about the mask pipeline, checked under SpecMask *)

\* The pixels of the band named n of an image.
PxOf(image, n) == select(image, n).px

Probability == PxOf([bands |-> img.s2cloudless], "probability")

FirstChar(n) == SubSeq(n, 1, 1)

NameSeq(image) == [k \in 1..Len(image.bands) |-> image.bands[k].name]

\* C2: after add_cloud_bands the 'clouds' band is 1 exactly at the pixels whose
\* attached probability is strictly above 40, and 0 at every other pixel; a
\* probability of exactly 40 is not cloud.
C2_ThresholdStrict ==
    pc # "start" =>
        \A i \in Pixels :
            /\ PxOf(img_cloud, "clouds")[i] \in {0, 1}
            /\ PxOf(img_cloud, "clouds")[i] = 1 <=> Probability[i] > 40
            /\ Probability[i] = 40 => PxOf(img_cloud, "clouds")[i] = 0

\* add_cloud_bands has run on an image with a pixel at exactly 40 (not cloud)
\* and a pixel at 41 (cloud).
C2_Witness ==
    /\ pc = "cloud"
    /\ \E i, j \in Pixels :
        /\ Probability[i] = 40 /\ PxOf(img_cloud, "clouds")[i] = 0
        /\ Probability[j] = 41 /\ PxOf(img_cloud, "clouds")[j] = 1

\* The scenario of C3: probability above 40, water and dark NIR at every
\* pixel, use_SCL = True.
C3_Scenario ==
    /\ use_SCL
    /\ \A i \in Pixels :
        /\ Probability[i] > 40
        /\ PxOf(img, "SCL")[i] = 6
        /\ PxOf(img, "B8")[i] < 1500

\* C3: in that scenario add_cld_shdw_mask gives clouds = 1, dark_pixels = 0,
\* shadows = 0 and cloudmask = 1 at every pixel, the raw mask is the clouds
\* band alone, and apply_cld_shdw_mask leaves every pixel of every reflectance
\* band masked.
C3_EndToEnd ==
    C3_Scenario =>
        /\ pc \in {"mask", "done"} =>
            /\ \A i \in Pixels :
                /\ PxOf(img_mask, "clouds")[i] = 1
                /\ PxOf(img_mask, "dark_pixels")[i] = 0
                /\ PxOf(img_mask, "shadows")[i] = 0
                /\ PxOf(img_mask, "cloudmask")[i] = 1
            /\ raw_cld_shdw(img_cloud_shadow).px = PxOf(img_mask, "clouds")
        /\ pc = "done" =>
            /\ {"B2", "B4", "B8"} \subseteq BandNames(img_out.bands)
            /\ \A k \in 1..Len(img_out.bands) : \A i \in Pixels :
                    img_out.bands[k].mk[i] = 0

\* The scenario has been run to the end.
C3_Witness ==
    /\ pc = "done"
    /\ C3_Scenario
    /\ Len(img_out.bands) > 0

\* One stage from `before` to `after`: every band of `before` is a band of
\* `after` at the same position and under the same name, and `after` has
\* band names `before` has not.
StageGrows(before, after) ==
    /\ Len(after.bands) > Len(before.bands)
    /\ SubSeq(NameSeq(after), 1, Len(before.bands)) = NameSeq(before)
    /\ BandNames(before.bands) \subseteq BandNames(after.bands)
    /\ BandNames(before.bands) # BandNames(after.bands)

\* C5: add_cloud_bands, add_shadow_bands and add_cld_shdw_mask each return an
\* image whose band set is a strict superset of their input's; every input
\* band is still there under its name.
C5_BandsGrow ==
    /\ pc \notin {"start"} => StageGrows(img, img_cloud)
    /\ pc \notin {"start", "cloud"} => StageGrows(img_cloud, img_cloud_shadow)
    /\ pc \in {"mask", "done"} => StageGrows(img, img_mask)

\* The three stages have run on an image that already had a band named
\* 'probability', which the pipeline's own band had to be added next to.
C5_Witness ==
    /\ pc = "mask"
    /\ "probability" \in BandNames(img.bands)
    /\ "probability_1" \in BandNames(img_mask.bands)
    /\ Len(img_mask.bands) = Len(img.bands) + 6

\* C6: the 'cloudmask' band add_cld_shdw_mask produces is 0 or 1 at every
\* pixel, and valid there, for either value of use_SCL.
C6_MaskBinary ==
    pc \in {"mask", "done"} =>
        \A i \in Pixels :
            /\ PxOf(img_mask, "cloudmask")[i] \in {0, 1}
            /\ select(img_mask, "cloudmask").mk[i] = 1

\* add_cld_shdw_mask has produced the mask, with use_SCL = False, of an
\* image where a pixel is cloud and shadow at once (the sum of the two bands
\* is 2 there) and occluded in the mask.
C6_Witness ==
    /\ pc = "mask"
    /\ ~use_SCL
    /\ \E i \in Pixels :
        /\ PxOf(img_mask, "clouds")[i] = 1
        /\ PxOf(img_mask, "shadows")[i] = 1
        /\ PxOf(img_mask, "cloudmask")[i] = 1

\* C7: apply_cld_shdw_mask returns exactly the input's bands whose names
\* begin with 'B', in order, none of the derived bands; a pixel is masked
\* where cloudmask = 1 and keeps its value where cloudmask = 0.
C7_ApplyMask ==
    pc = "done" =>
        /\ NameSeq(img_out) = SelectSeq(NameSeq(img_mask), LAMBDA n : FirstChar(n) = "B")
        /\ BandNames(img_out.bands) \cap
             {"clouds", "shadows", "dark_pixels", "cloud_transform",
              "probability", "cloudmask"} = {}
        /\ \A k \in 1..Len(img_out.bands) : \A i \in Pixels :
            /\ PxOf(img_mask, "cloudmask")[i] = 1 => img_out.bands[k].mk[i] = 0
            /\ PxOf(img_mask, "cloudmask")[i] = 0 =>
                /\ img_out.bands[k].mk[i] = 1
                /\ img_out.bands[k].px[i] = PxOf(img_mask, img_out.bands[k].name)[i]

\* The mask has been applied to an image with occluded and clear pixels.
C7_Witness ==
    /\ pc = "done"
    /\ Len(img_out.bands) = 3
    /\ \E i, j \in Pixels :
        /\ PxOf(img_mask, "cloudmask")[i] = 1 /\ img_out.bands[1].mk[i] = 0
        /\ PxOf(img_mask, "cloudmask")[j] = 0 /\ img_out.bands[1].mk[j] = 1

\* C10: the raw mask (clouds + shadows) > 0 is eroded with radius 2 and then
\* dilated by BUFFER expressed in 20 m pixels, 100 / 20 = 5.
C10_DilateByBuffer ==
    pc \in {"mask", "done"} =>
        PxOf(img_mask, "cloudmask") =
            focalMax(focalMin(raw_cld_shdw(img_cloud_shadow), 2), 100 \div 20).px

\* What the code computes: the same erosion, then a dilation of radius
\* BUFFER * 2 / 20 = 10 pixels.
C10_CodeDilation ==
    pc \in {"mask", "done"} =>
        PxOf(img_mask, "cloudmask") =
            focalMax(focalMin(raw_cld_shdw(img_cloud_shadow), 2), 10).px

\* A patch too narrow to survive the erosion leaves the mask empty.
C10_SmallPatchRemoved ==
    pc \in {"mask", "done"} =>
        ((\A i \in Pixels : focalMin(raw_cld_shdw(img_cloud_shadow), 2).px[i] = 0)
            => \A i \in Pixels : PxOf(img_mask, "cloudmask")[i] = 0)

===========================================================================
